---- MODULE Spec2Model ----
(***************************************************************************)
(* Model of src/main.c of tags-lsp: process start-up (main, _initialize,   *)
(* _parser_command_line_options), the reactor callbacks (_on_signal,       *)
(* _on_exit_notify, _on_io_in, _handle_request) and the exit hook          *)
(* (_at_exit and its stages).                                              *)
(*                                                                         *)
(* The collaborators main.c calls but does not contain (the frame decoder  *)
(* lsp_parser, the dispatch gate lsp_handle_msg, the work subsystem        *)
(* lsp_work, lsp_exit, tag_lsp_io) are modelled from spec.md.  The         *)
(* reactor follows libuv's uv_run / uv_stop / uv_close contract.           *)
(***************************************************************************)
EXTENDS Integers, Sequences, FiniteSets, TLC

(* ------------------------------ bounds -------------------------------- *)

\* Largest number of frames the peer puts on the wire.
MaxFrames == 2

\* In Spec the transport delivers chunks that end on a multiple of Grain
\* bytes of the stream (or at its end); in DecSpec every split is tried.
Grain == 11

\* In CliSpec the command line has up to MaxArgs arguments after argv[0].
MaxArgs == 3

(* ------------------------------ bytes --------------------------------- *)

CR == "\r"
LF == "\n"

DigitChars == <<"0", "1", "2", "3", "4", "5", "6", "7", "8", "9">>

ContentLengthKey ==
    <<"C", "o", "n", "t", "e", "n", "t", "-", "L", "e", "n", "g", "t", "h">>

RECURSIVE ToDigits(_)
\* Decimal text of n >= 0, as the peer writes the declared length.
ToDigits(n) ==
    IF n < 10 THEN <<DigitChars[n + 1]>>
    ELSE ToDigits(n \div 10) \o <<DigitChars[(n % 10) + 1]>>

DigitValue(c) == CHOOSE d \in 0..9 : DigitChars[d + 1] = c

IsDigit(c) == \E d \in 0..9 : DigitChars[d + 1] = c

RECURSIVE ParseDigits(_, _)
ParseDigits(s, acc) ==
    IF s = <<>> THEN acc
    ELSE ParseDigits(Tail(s), acc * 10 + DigitValue(Head(s)))

\* The value of a length field, -1 when it is not a decimal number.
ParseLength(s) ==
    IF s # <<>> /\ \A i \in 1..Len(s) : IsDigit(s[i])
    THEN ParseDigits(s, 0)
    ELSE -1

\* One frame on the wire: header line, blank line, body.
EncodeFrame(body) ==
    ContentLengthKey \o <<":", " ">> \o ToDigits(Len(body)) \o <<CR, LF>>
        \o <<CR, LF>> \o body

RECURSIVE EncodeFrames(_)
EncodeFrames(fs) ==
    IF fs = <<>> THEN <<>> ELSE EncodeFrame(Head(fs)) \o EncodeFrames(Tail(fs))

\* A header block whose length field is not a number.
BadHeader ==
    ContentLengthKey \o <<":", " ", "x">> \o <<CR, LF>> \o <<CR, LF>>

(* --------------------- frame decoder (lsp_parser) --------------------- *)

ParserInit == [st |-> "header", line |-> <<>>, clen |-> -1, body |-> <<>>]

ParserNull == [st |-> "null", line |-> <<>>, clen |-> -1, body |-> <<>>]

\* Index of the first ":" of a header line, 0 when there is none.
ColonAt(ln) ==
    IF \E i \in 1..Len(ln) : ln[i] = ":"
    THEN CHOOSE i \in 1..Len(ln) : ln[i] = ":" /\ \A j \in 1..(i - 1) : ln[j] # ":"
    ELSE 0

RECURSIVE SkipSpaces(_)
SkipSpaces(s) ==
    IF s # <<>> /\ Head(s) = " " THEN SkipSpaces(Tail(s)) ELSE s

\* A complete header line (without its CR LF) applied to the decoder state.
HeaderLine(p, ln) ==
    LET c == ColonAt(ln) IN
    IF c = 0 THEN [p EXCEPT !.st = "error", !.line = <<>>]
    ELSE LET key == SubSeq(ln, 1, c - 1)
             val == SkipSpaces(SubSeq(ln, c + 1, Len(ln)))
         IN IF key # ContentLengthKey THEN [p EXCEPT !.line = <<>>]
            ELSE IF ParseLength(val) < 0 THEN [p EXCEPT !.st = "error", !.line = <<>>]
            ELSE [p EXCEPT !.clen = ParseLength(val), !.line = <<>>]

\* One byte fed to the decoder: the new state and the bodies it emits.
FeedByte(p, b) ==
    CASE p.st = "header" /\ b # LF ->
            [p |-> [p EXCEPT !.line = Append(p.line, b)], out |-> <<>>]
      [] p.st = "header" /\ b = LF ->
            IF p.line = <<>> \/ p.line[Len(p.line)] # CR
            THEN [p |-> [p EXCEPT !.st = "error", !.line = <<>>], out |-> <<>>]
            ELSE LET ln == SubSeq(p.line, 1, Len(p.line) - 1) IN
                 IF ln # <<>> THEN [p |-> HeaderLine(p, ln), out |-> <<>>]
                 ELSE IF p.clen < 0
                      THEN [p |-> [p EXCEPT !.st = "error", !.line = <<>>], out |-> <<>>]
                 ELSE IF p.clen = 0 THEN [p |-> ParserInit, out |-> <<(<<>>)>>]
                 ELSE [p |-> [p EXCEPT !.st = "body", !.line = <<>>], out |-> <<>>]
      [] p.st = "body" ->
            IF Len(p.body) + 1 = p.clen
            THEN [p |-> ParserInit, out |-> <<Append(p.body, b)>>]
            ELSE [p |-> [p EXCEPT !.body = Append(p.body, b)], out |-> <<>>]
      [] OTHER -> [p |-> p, out |-> <<>>]

RECURSIVE FeedFrom(_, _, _, _)
\* The bytes of data from index i on, fed one at a time; after an error the
\* rest is not decoded (no resynchronisation).
FeedFrom(p, out, data, i) ==
    IF i > Len(data) \/ p.st = "error" THEN [p |-> p, out |-> out]
    ELSE LET one == FeedByte(p, data[i])
         IN IF one.out = <<>> THEN FeedFrom(one.p, out, data, i + 1)
            ELSE FeedFrom(one.p, out \o one.out, data, i + 1)

\* feed(chunk): every byte in order; the decoded bodies in arrival order.
lsp_parser_execute(p, data) == FeedFrom(p, <<>>, data, 1)

(* --------------------------- command line ------------------------------ *)

\* Arguments are C strings, modelled as sequences of characters.
OptHelpShort == <<"-", "h">>
OptHelp == <<"-", "-", "h", "e", "l", "p">>
OptStdio == <<"-", "-", "s", "t", "d", "i", "o">>
OptPipe == <<"-", "-", "p", "i", "p", "e", "=">>
OptPort == <<"-", "-", "p", "o", "r", "t", "=">>
OptLogdir == <<"-", "-", "l", "o", "g", "d", "i", "r", "=">>
OptLogfile == <<"-", "-", "l", "o", "g", "f", "i", "l", "e", "=">>

\* argv[0].
ProgName == <<"t">>

\* strncmp(arg, opt, strlen(opt)) == 0.
HasPrefix(arg, opt) ==
    Len(arg) >= Len(opt) /\ SubSeq(arg, 1, Len(opt)) = opt

\* arg + strlen(opt).
After(arg, opt) == SubSeq(arg, Len(opt) + 1, Len(arg))

\* isspace.
IsSpace(c) == c \in {" ", "\t", "\n"}

RECURSIVE SkipWhite(_)
SkipWhite(s) ==
    IF s # <<>> /\ IsSpace(Head(s)) THEN SkipWhite(Tail(s)) ELSE s

RECURSIVE LeadingDigits(_)
\* The longest prefix of s made of decimal digits.
LeadingDigits(s) ==
    IF s # <<>> /\ IsDigit(Head(s))
    THEN <<Head(s)>> \o LeadingDigits(Tail(s))
    ELSE <<>>

\* sscanf(s, "%d", &v): white space is skipped, then an optional sign and
\* the longest run of digits are converted, and whatever follows is left
\* unread.  n is the return value: 1 after a conversion, 0 when the text is no
\* number, -1 (EOF) when the input ends before any.
ScanInt(s) ==
    LET t == SkipWhite(s)
        signed == t # <<>> /\ Head(t) \in {"+", "-"}
        u == IF signed THEN Tail(t) ELSE t
        ds == LeadingDigits(u)
    IN IF ds # <<>>
       THEN [n |-> 1,
             v |-> IF signed /\ Head(t) = "-" THEN 0 - ParseDigits(ds, 0)
                   ELSE ParseDigits(ds, 0)]
       ELSE [n |-> IF u = <<>> THEN -1 ELSE 0, v |-> 0]

\* What "no string" and "not set" look like in the records below.
Null == "NULL"
Unset == "unset"

\* The state of _parser_command_line_options before its loop: io_cfg with the
\* stdio transport and nothing else written, the log options as they are in
\* g_tags.config at start-up.
CliStart ==
    [exit |-> FALSE, code |-> 0, type |-> "TAG_LSP_IO_STDIO", file |-> Unset,
     port |-> Unset, logdir |-> Null, logfile |-> Null]

\* The loop body with --stdio taken as needing nothing, stdio being the
\* default.
CliArg_stdio_noop(c, arg) ==
    IF arg = OptHelpShort \/ arg = OptHelp
    THEN [c EXCEPT !.exit = TRUE, !.code = 0]
    ELSE IF arg = OptStdio
    THEN c
    ELSE IF HasPrefix(arg, OptPipe)
    THEN [c EXCEPT !.type = "TAG_LSP_IO_PIPE", !.file = After(arg, OptPipe)]
    ELSE IF HasPrefix(arg, OptPort)
    THEN LET r == ScanInt(After(arg, OptPort))
         IN IF r.n # 1
            THEN [c EXCEPT !.exit = TRUE, !.code = 1]
            ELSE [c EXCEPT !.type = "TAG_LSP_IO_PORT", !.port = r.v]
    ELSE IF HasPrefix(arg, OptLogdir)
    THEN [c EXCEPT !.logdir = After(arg, OptLogdir)]
    ELSE IF HasPrefix(arg, OptLogfile)
    THEN [c EXCEPT !.logfile = After(arg, OptLogfile)]
    ELSE c

\* One turn of the loop over argv: the tests in the order of the code, the
\* first that matches decides.
CliArg(c, arg) ==
    IF arg = OptHelpShort \/ arg = OptHelp
    THEN [c EXCEPT !.exit = TRUE, !.code = 0]
    ELSE IF arg = OptStdio
    THEN [c EXCEPT !.type = "TAG_LSP_IO_STDIO"]
    ELSE IF HasPrefix(arg, OptPipe)
    THEN [c EXCEPT !.type = "TAG_LSP_IO_PIPE", !.file = After(arg, OptPipe)]
    ELSE IF HasPrefix(arg, OptPort)
    THEN LET r == ScanInt(After(arg, OptPort))
         IN IF r.n # 1
            THEN [c EXCEPT !.exit = TRUE, !.code = 1]
            ELSE [c EXCEPT !.type = "TAG_LSP_IO_PORT", !.port = r.v]
    ELSE IF HasPrefix(arg, OptLogdir)
    THEN [c EXCEPT !.logdir = After(arg, OptLogdir)]
    ELSE IF HasPrefix(arg, OptLogfile)
    THEN [c EXCEPT !.logfile = After(arg, OptLogfile)]
    ELSE c

RECURSIVE CliFrom(_, _, _)
\* The loop from argv[i] on; exit() ends it.
CliFrom(c, args, i) ==
    IF i > Len(args) \/ c.exit THEN c
    ELSE CliFrom(CliArg(c, args[i]), args, i + 1)

\* _parser_command_line_options: the loop starts at argv[0].
_parser_command_line_options(args) == CliFrom(CliStart, args, 1)

(* ------------------------------ state --------------------------------- *)

VARIABLES
    pc,           \* where the main thread is: start, main_run, at_exit, ...
    exitCode,     \* status handed to exit(), -1 before
    shutdown,     \* g_tags.flags.shutdown
    slot,         \* which g_tags pointers are non-NULL
    freed,        \* how often each heap object was freed
    loopSt,       \* the reactor: uninit, live, destroyed
    destroyed,    \* how often uv_loop_close succeeded
    stop_flag,    \* the reactor's stop request (uv_stop)
    run,          \* the uv_run call in progress: none, main, drain, final
    lp,           \* inside uv_run: idle, cond (loop test), poll, ret
    runRet,       \* what the last uv_run returned
    hst,          \* handle states: none, open, closing, closed
    closeReq,     \* how often close was requested on each handle
    sigPending,   \* a SIGINT is waiting for the signal watcher
    asyncPending, \* the exit notifier was triggered (uv_async_send)
    frames,       \* the bodies the peer encodes
    wire,         \* the bytes the peer sends
    grain,        \* chunk boundaries the transport may produce
    rd,           \* how many bytes of wire the transport has delivered
    parser,       \* the frame decoder behind g_tags.parser
    fed,          \* every byte handed to lsp_parser_execute, in order
    delivered,    \* every body handed to _handle_request, in order
    pending,      \* PendingRequestSet
    cancelled,    \* ids marked cancelled by cancel_all
    work,         \* outstanding work units (WorkQueueDepth is its size)
    nextId,       \* next request identifier
    inited,       \* subsystems initialised: log, io, msg, work
    steps,        \* the orchestrator's steps so far, in order
    n0,           \* work units outstanding when _at_exit started, -1 before
    cbs,          \* callbacks that asked for a stop during this uv_run
    late,         \* a shutdown trigger arrived after the main run ended
    argv,         \* the command line, argv[0] first
    io_cfg,       \* what tag_lsp_io_init was called with, NoIo before
    freeSeq,      \* the heap objects freed so far, in order
    lateStop      \* uv_stop was called after the main run ended

vars == <<pc, exitCode, shutdown, slot, freed, loopSt, destroyed, stop_flag,
          run, lp, runRet, hst, closeReq, sigPending, asyncPending, frames,
          wire, grain, rd, parser, fed, delivered, pending, cancelled, work,
          nextId, inited, steps, n0, cbs, late, argv, io_cfg, freeSeq,
          lateStop>>

\* io_cfg while tag_lsp_io_init has not been called.
NoIo == [type |-> "none", file |-> Unset, port |-> Unset]

\* tag_lsp_io_init has been called.
TransportOpened == io_cfg.type # NoIo.type

Handles == {"sigint", "exit_notifier", "io"}

Objects == {"loop", "parser", "logdir", "logfile", "sigint", "exit_notifier"}

Subsystems == {"log", "io", "msg", "work"}

\* Bodies of the frames on the wire in Spec.
SpecBodies == {<<"a">>}

\* Bodies of the short frames on the wire in DecSpec.
DecBodies == {<<"a">>, <<"H", "E", "L", "L", "O">>}

\* A body with a two-digit length that itself holds line ends, a colon and
\* the text of a header.
LongBody == <<":", CR, LF, CR, LF, "C", ":", " ", "1", LF>>

RECURSIVE SeqsUpTo(_, _)
\* Every sequence over S of length at most n.
SeqsUpTo(S, n) ==
    IF n = 0 THEN {<<>>}
    ELSE LET shorter == SeqsUpTo(S, n - 1)
         IN shorter \cup {Append(q, x) : q \in shorter, x \in S}

\* State at process start, before main runs.
InitCommon ==
    /\ pc = "start"
    /\ exitCode = -1
    /\ shutdown = 0
    /\ slot = [o \in Objects |-> FALSE]
    /\ freed = [o \in Objects |-> 0]
    /\ loopSt = "uninit"
    /\ destroyed = 0
    /\ stop_flag = 0
    /\ run = "none"
    /\ lp = "idle"
    /\ runRet = 0
    /\ hst = [h \in Handles |-> "none"]
    /\ closeReq = [h \in Handles |-> 0]
    /\ sigPending = FALSE
    /\ asyncPending = FALSE
    /\ rd = 0
    /\ parser = ParserNull
    /\ fed = <<>>
    /\ delivered = <<>>
    /\ pending = {}
    /\ cancelled = {}
    /\ work = {}
    /\ nextId = 1
    /\ inited = {}
    /\ steps = <<>>
    /\ n0 = -1
    /\ cbs = {}
    /\ late = FALSE
    /\ io_cfg = NoIo
    /\ freeSeq = <<>>
    /\ lateStop = FALSE

\* The command lines of Spec: none, the two log options with a port whose
\* text goes on after the number, help alone and after the log options, a
\* port that is no number alone, after the log options and after help.
SpecArgvs ==
    { <<ProgName>>,
      <<ProgName, OptLogdir \o <<"d">>, OptLogfile \o <<"f">>,
        OptPort \o <<"8", "x">>>>,
      <<ProgName, OptHelpShort>>,
      <<ProgName, OptLogdir \o <<"d">>, OptLogfile \o <<"f">>, OptHelp>>,
      <<ProgName, OptPort \o <<"x">>>>,
      <<ProgName, OptLogdir \o <<"d">>, OptLogfile \o <<"f">>, OptPort>>,
      <<ProgName, OptHelpShort, OptPort \o <<"x">>>> }

Init ==
    /\ InitCommon
    /\ argv \in SpecArgvs
    /\ grain = Grain
    /\ frames \in SeqsUpTo(SpecBodies, MaxFrames)
    /\ \E bad \in BOOLEAN :
          wire = IF bad THEN EncodeFrames(frames) \o BadHeader \o EncodeFrames(frames)
                 ELSE EncodeFrames(frames)

(* ----------------------------- start-up -------------------------------- *)

\* _initialize that parses the command line first: on exit() nothing has been
\* created yet.
_initialize_parsefirst(opt, ld, lf) ==
    /\ loopSt' = IF opt = "run" THEN "live" ELSE "uninit"
    /\ slot' = [o \in Objects |->
                  CASE o \in {"loop", "sigint", "exit_notifier"} -> opt = "run"
                    [] o = "logdir" -> ld
                    [] o = "logfile" -> lf
                    [] o = "parser" -> opt = "run"]
    /\ hst' = [h \in Handles |-> IF opt = "run" THEN "open" ELSE "none"]
    /\ inited' = IF opt = "run" THEN Subsystems ELSE {}
    /\ parser' = IF opt = "run" THEN ParserInit ELSE ParserNull

\* _initialize: the reactor, the two handles, the command line, then the
\* subsystems and the parser.  opt is what the command line asks for: "run",
\* "help" (-h / --help) or "badport" (--port= with no integer); ld and lf say
\* whether --logdir= and --logfile= were parsed before that.
_initialize(opt, ld, lf) ==
    /\ loopSt' = "live"
    /\ slot' = [o \in Objects |->
                  CASE o \in {"loop", "sigint", "exit_notifier"} -> TRUE
                    [] o = "logdir" -> ld
                    [] o = "logfile" -> lf
                    [] o = "parser" -> opt = "run"]
    /\ hst' = [h \in Handles |->
                  IF h = "io" THEN (IF opt = "run" THEN "open" ELSE "none")
                  ELSE "open"]
    /\ inited' = IF opt = "run" THEN Subsystems ELSE {}
    /\ parser' = IF opt = "run" THEN ParserInit ELSE ParserNull

\* main up to its uv_run: exit() inside the command-line parser goes straight
\* to the exit hook; otherwise tag_lsp_io_init gets the parsed io_cfg and the
\* main reactor run starts.
main ==
    /\ pc = "start"
    /\ LET c == _parser_command_line_options(argv)
           opt == IF ~c.exit THEN "run"
                  ELSE IF c.code = 0 THEN "help" ELSE "badport"
       IN /\ _initialize(opt, c.logdir # Null, c.logfile # Null)
          /\ IF opt = "run"
             THEN /\ pc' = "main_run" /\ run' = "main" /\ lp' = "cond"
                  /\ io_cfg' = [type |-> c.type, file |-> c.file,
                                port |-> c.port]
                  /\ UNCHANGED exitCode
             ELSE /\ pc' = "at_exit" /\ UNCHANGED <<run, lp, io_cfg>>
                  /\ exitCode' = c.code
    /\ UNCHANGED <<shutdown, freed, destroyed, stop_flag, runRet, closeReq,
                   sigPending, asyncPending, frames, wire, grain, rd, fed,
                   delivered, pending, cancelled, work, nextId, steps,
                   n0, cbs, late>>
    /\ UNCHANGED <<argv, freeSeq, lateStop>>

(* ------------------------------ reactor -------------------------------- *)

\* uv__loop_alive: a handle that is open or closing, or an active request.
Alive == (\E h \in Handles : hst[h] \in {"open", "closing"}) \/ work # {}

\* uv_run's loop test fails, or UV_RUN_ONCE has done its iteration.
RunEnds == lp = "ret" \/ (lp = "cond" /\ ~(Alive /\ stop_flag = 0))

\* uv_run enters one iteration: while (r != 0 && loop->stop_flag == 0).
UvIterStart ==
    /\ run # "none" /\ lp = "cond"
    /\ Alive /\ stop_flag = 0
    /\ lp' = "poll"
    /\ UNCHANGED <<pc, exitCode, shutdown, slot, freed, loopSt, destroyed,
                   stop_flag, run, runRet, hst, closeReq, sigPending,
                   asyncPending, frames, wire, grain, rd, parser, fed,
                   delivered, pending, cancelled, work, nextId, inited, steps,
                   n0, cbs, late>>
    /\ UNCHANGED <<argv, io_cfg, freeSeq, lateStop>>

\* The end of an iteration: handles with close requested become closed;
\* UV_RUN_ONCE (the drain loop) leaves after it.
UvIterEnd ==
    /\ run # "none" /\ lp = "poll"
    /\ hst' = [h \in Handles |-> IF hst[h] = "closing" THEN "closed" ELSE hst[h]]
    /\ lp' = IF run = "drain" THEN "ret" ELSE "cond"
    /\ UNCHANGED <<pc, exitCode, shutdown, slot, freed, loopSt, destroyed,
                   stop_flag, run, runRet, closeReq, sigPending, asyncPending,
                   frames, wire, grain, rd, parser, fed, delivered, pending,
                   cancelled, work, nextId, inited, steps, n0, cbs, late>>
    /\ UNCHANGED <<argv, io_cfg, freeSeq, lateStop>>

\* A SIGINT is delivered to the process while the watcher is started.
Sigint ==
    /\ hst["sigint"] = "open" /\ ~sigPending
    /\ pc \notin {"start", "terminated", "aborted"}
    /\ sigPending' = TRUE
    /\ late' = (late \/ pc # "main_run")
    /\ UNCHANGED <<pc, exitCode, shutdown, slot, freed, loopSt, destroyed,
                   stop_flag, run, lp, runRet, hst, closeReq, asyncPending,
                   frames, wire, grain, rd, parser, fed, delivered, pending,
                   cancelled, work, nextId, inited, steps, n0, cbs>>
    /\ UNCHANGED <<argv, io_cfg, freeSeq, lateStop>>

\* lsp_exit: trigger the exit notifier.
lsp_exit == asyncPending' = TRUE

\* _on_signal: the signal watcher's callback.
_on_signal ==
    /\ lp = "poll" /\ sigPending /\ hst["sigint"] = "open"
    /\ sigPending' = FALSE
    /\ lsp_exit
    /\ UNCHANGED <<pc, exitCode, shutdown, slot, freed, loopSt, destroyed,
                   stop_flag, run, lp, runRet, hst, closeReq, frames, wire,
                   grain, rd, parser, fed, delivered, pending, cancelled, work,
                   nextId, inited, steps, n0, cbs, late>>
    /\ UNCHANGED <<argv, io_cfg, freeSeq, lateStop>>

\* _on_exit_notify that also closes its own handle.
_on_exit_notify_closes ==
    /\ lp = "poll" /\ asyncPending /\ hst["exit_notifier"] = "open"
    /\ asyncPending' = FALSE
    /\ stop_flag' = 1
    /\ hst' = [hst EXCEPT !["exit_notifier"] = "closing"]
    /\ closeReq' = [closeReq EXCEPT !["exit_notifier"] = @ + 1]
    /\ cbs' = cbs \cup {"notify"}
    /\ late' = (late \/ pc # "main_run")
    /\ UNCHANGED <<pc, exitCode, shutdown, slot, freed, loopSt, destroyed,
                   run, lp, runRet, sigPending, frames, wire, grain, rd,
                   parser, fed, delivered, pending, cancelled, work, nextId,
                   inited, steps, n0>>
    /\ lateStop' = (lateStop \/ run # "main")
    /\ UNCHANGED <<argv, io_cfg, freeSeq>>

\* _on_exit_notify that does not call uv_stop.
_on_exit_notify_nostop ==
    /\ lp = "poll" /\ asyncPending /\ hst["exit_notifier"] = "open"
    /\ asyncPending' = FALSE
    /\ cbs' = cbs \cup {"notify"}
    /\ late' = (late \/ pc # "main_run")
    /\ UNCHANGED <<pc, exitCode, shutdown, slot, freed, loopSt, destroyed,
                   stop_flag, run, lp, runRet, hst, closeReq, sigPending,
                   frames, wire, grain, rd, parser, fed, delivered, pending,
                   cancelled, work, nextId, inited, steps, n0>>
    /\ UNCHANGED <<argv, io_cfg, freeSeq, lateStop>>

\* _on_exit_notify: the exit notifier's callback.
_on_exit_notify ==
    /\ lp = "poll" /\ asyncPending /\ hst["exit_notifier"] = "open"
    /\ asyncPending' = FALSE
    /\ stop_flag' = 1
    /\ cbs' = cbs \cup {"notify"}
    /\ late' = (late \/ pc # "main_run")
    /\ UNCHANGED <<pc, exitCode, shutdown, slot, freed, loopSt, destroyed,
                   run, lp, runRet, hst, closeReq, sigPending, frames, wire,
                   grain, rd, parser, fed, delivered, pending, cancelled, work,
                   nextId, inited, steps, n0>>
    /\ UNCHANGED <<argv, io_cfg, freeSeq, lateStop>>

(* --------------------------- dispatch gate ----------------------------- *)

\* submit(message): dropped once the shutdown flag is set; otherwise the
\* request is recorded as pending and forwarded as a work unit.
lsp_handle_msg(d, msg) ==
    IF shutdown = 1 THEN d
    ELSE [d EXCEPT !.pending = @ \cup {d.nextId},
                   !.work = @ \cup {d.nextId},
                   !.nextId = @ + 1]

\* _handle_request: the decoder's callback, once per decoded message.
_handle_request(d, msg) ==
    [lsp_handle_msg(d, msg) EXCEPT !.delivered = Append(@, msg)]

RECURSIVE HandleAll(_, _)
\* The callback applied to each decoded message of one feed, in order.
HandleAll(d, outs) ==
    IF outs = <<>> THEN d
    ELSE HandleAll(_handle_request(d, Head(outs)), Tail(outs))

\* _on_io_in that returns on an error without uv_stop.
_on_io_in_nostop(data, size) ==
    IF size < 0
    THEN UNCHANGED <<stop_flag, parser, fed, delivered, pending, work, nextId>>
    ELSE LET bytes == SubSeq(data, 1, size)
             r == lsp_parser_execute(parser, bytes)
             d == HandleAll([pending |-> pending, work |-> work,
                             nextId |-> nextId, delivered |-> delivered], r.out)
         IN /\ parser' = r.p
            /\ fed' = fed \o bytes
            /\ delivered' = d.delivered
            /\ pending' = d.pending
            /\ work' = d.work
            /\ nextId' = d.nextId
            /\ UNCHANGED stop_flag

\* _on_io_in that hands the decoder one byte less than it was given.
_on_io_in_short(data, size) ==
    IF size < 0
    THEN /\ stop_flag' = 1
         /\ UNCHANGED <<parser, fed, delivered, pending, work, nextId>>
    ELSE LET bytes == SubSeq(data, 1, size - 1)
             r == lsp_parser_execute(parser, bytes)
             d == HandleAll([pending |-> pending, work |-> work,
                             nextId |-> nextId, delivered |-> delivered], r.out)
         IN /\ parser' = r.p
            /\ fed' = fed \o bytes
            /\ delivered' = d.delivered
            /\ pending' = d.pending
            /\ work' = d.work
            /\ nextId' = d.nextId
            /\ UNCHANGED stop_flag

\* _on_io_in: the transport's read callback.
_on_io_in(data, size) ==
    IF size < 0
    THEN /\ stop_flag' = 1
         /\ UNCHANGED <<parser, fed, delivered, pending, work, nextId>>
    ELSE LET bytes == SubSeq(data, 1, size)
             r == lsp_parser_execute(parser, bytes)
             d == HandleAll([pending |-> pending, work |-> work,
                             nextId |-> nextId, delivered |-> delivered], r.out)
         IN /\ parser' = r.p
            /\ fed' = fed \o bytes
            /\ delivered' = d.delivered
            /\ pending' = d.pending
            /\ work' = d.work
            /\ nextId' = d.nextId
            /\ UNCHANGED stop_flag

\* Sizes of the next chunk the transport may deliver.
ChunkSizes ==
    {n \in 1..(Len(wire) - rd) : (rd + n) % grain = 0 \/ rd + n = Len(wire)}

\* The transport has read some bytes from the peer.
IoData ==
    /\ lp = "poll" /\ hst["io"] = "open"
    /\ \E n \in ChunkSizes :
          /\ _on_io_in(SubSeq(wire, rd + 1, rd + n), n)
          /\ rd' = rd + n
    /\ UNCHANGED <<pc, exitCode, shutdown, slot, freed, loopSt, destroyed,
                   run, lp, runRet, hst, closeReq, sigPending, asyncPending,
                   frames, wire, grain, cancelled, inited, steps, n0, cbs,
                   late>>
    /\ UNCHANGED <<argv, io_cfg, freeSeq, lateStop>>

\* The transport's read failed or reached the end of the stream.
IoError ==
    /\ lp = "poll" /\ hst["io"] = "open"
    /\ _on_io_in(<<>>, -1)
    /\ cbs' = cbs \cup {"ioerr"}
    /\ late' = (late \/ pc # "main_run")
    /\ UNCHANGED <<pc, exitCode, shutdown, slot, freed, loopSt, destroyed,
                   run, lp, runRet, hst, closeReq, sigPending, asyncPending,
                   frames, wire, grain, rd, cancelled, inited, steps, n0>>
    /\ lateStop' = (lateStop \/ run # "main")
    /\ UNCHANGED <<argv, io_cfg, freeSeq>>

\* complete(id): a work unit finishes in a reactor iteration.
WorkDone ==
    /\ lp = "poll"
    /\ \E id \in work :
          /\ work' = work \ {id}
          /\ pending' = pending \ {id}
    /\ UNCHANGED <<pc, exitCode, shutdown, slot, freed, loopSt, destroyed,
                   stop_flag, run, lp, runRet, hst, closeReq, sigPending,
                   asyncPending, frames, wire, grain, rd, parser, fed,
                   delivered, cancelled, nextId, inited, steps, n0, cbs, late>>
    /\ UNCHANGED <<argv, io_cfg, freeSeq, lateStop>>

(* ----------------------------- exit hook -------------------------------- *)

\* main that returns what its uv_run returned.
MainReturn_runresult ==
    /\ pc = "main_run" /\ run = "main" /\ RunEnds
    /\ runRet' = IF Alive THEN 1 ELSE 0
    /\ stop_flag' = 0
    /\ run' = "none" /\ lp' = "idle"
    /\ pc' = "at_exit"
    /\ exitCode' = IF Alive THEN 1 ELSE 0
    /\ cbs' = {}
    /\ UNCHANGED <<shutdown, slot, freed, loopSt, destroyed, hst, closeReq,
                   sigPending, asyncPending, frames, wire, grain, rd, parser,
                   fed, delivered, pending, cancelled, work, nextId, inited,
                   steps, n0, late>>
    /\ UNCHANGED <<argv, io_cfg, freeSeq, lateStop>>

\* main after its uv_run: return 0, which runs the exit hook.
MainReturn ==
    /\ pc = "main_run" /\ run = "main" /\ RunEnds
    /\ runRet' = IF Alive THEN 1 ELSE 0
    /\ stop_flag' = 0
    /\ run' = "none" /\ lp' = "idle"
    /\ pc' = "at_exit"
    /\ exitCode' = 0
    /\ cbs' = {}
    /\ UNCHANGED <<shutdown, slot, freed, loopSt, destroyed, hst, closeReq,
                   sigPending, asyncPending, frames, wire, grain, rd, parser,
                   fed, delivered, pending, cancelled, work, nextId, inited,
                   steps, n0, late>>
    /\ UNCHANGED <<argv, io_cfg, freeSeq, lateStop>>

\* The status the process ends with: what exit() or main's return gave, or
\* the status of a process killed by abort().
ExitStatus == IF pc = "aborted" THEN 134 ELSE exitCode

\* cancel_all(): every pending id is marked cancelled.
lsp_msg_cancel_all_pending_request ==
    /\ cancelled' = cancelled \cup pending
    /\ pending' = {}

\* WorkQueueDepth.
lsp_work_queue_size == Cardinality(work)

\* _at_exit that does not set the shutdown flag.
_at_exit_noflag ==
    /\ pc = "at_exit"
    /\ lsp_msg_cancel_all_pending_request
    /\ steps' = steps \o <<"flag", "cancel">>
    /\ n0' = lsp_work_queue_size
    /\ pc' = "wait"
    /\ UNCHANGED <<exitCode, shutdown, slot, freed, loopSt, destroyed,
                   stop_flag, run, lp, runRet, hst, closeReq, sigPending,
                   asyncPending, frames, wire, grain, rd, parser, fed,
                   delivered, work, nextId, inited, cbs, late>>
    /\ UNCHANGED <<argv, io_cfg, freeSeq, lateStop>>

\* _at_exit up to the drain loop: the flag, then cancel_all.
_at_exit ==
    /\ pc = "at_exit"
    /\ shutdown' = 1
    /\ lsp_msg_cancel_all_pending_request
    /\ steps' = steps \o <<"flag", "cancel">>
    /\ n0' = lsp_work_queue_size
    /\ pc' = "wait"
    /\ UNCHANGED <<exitCode, slot, freed, loopSt, destroyed, stop_flag, run,
                   lp, runRet, hst, closeReq, sigPending, asyncPending, frames,
                   wire, grain, rd, parser, fed, delivered, work, nextId,
                   inited, cbs, late>>
    /\ UNCHANGED <<argv, io_cfg, freeSeq, lateStop>>

\* _wait_for_pending_task with its loop test off by one (queue_size > 1).
_wait_for_pending_task_offbyone ==
    /\ pc = "wait" /\ run = "none"
    /\ IF lsp_work_queue_size > 1
       THEN /\ run' = "drain" /\ lp' = "cond"
            /\ steps' = IF steps[Len(steps)] = "drain" THEN steps
                        ELSE Append(steps, "drain")
            /\ UNCHANGED pc
       ELSE /\ pc' = "stage_1"
            /\ steps' = Append(steps, "depth_zero")
            /\ UNCHANGED <<run, lp>>
    /\ UNCHANGED <<exitCode, shutdown, slot, freed, loopSt, destroyed,
                   stop_flag, runRet, hst, closeReq, sigPending, asyncPending,
                   frames, wire, grain, rd, parser, fed, delivered, pending,
                   cancelled, work, nextId, inited, n0, cbs, late>>
    /\ UNCHANGED <<argv, io_cfg, freeSeq, lateStop>>

\* _wait_for_pending_task with its loop test inverted (queue_size == 0).
_wait_for_pending_task_inverted ==
    /\ pc = "wait" /\ run = "none"
    /\ IF lsp_work_queue_size = 0
       THEN /\ run' = "drain" /\ lp' = "cond"
            /\ steps' = IF steps[Len(steps)] = "drain" THEN steps
                        ELSE Append(steps, "drain")
            /\ UNCHANGED pc
       ELSE /\ pc' = "stage_1"
            /\ steps' = Append(steps, "depth_zero")
            /\ UNCHANGED <<run, lp>>
    /\ UNCHANGED <<exitCode, shutdown, slot, freed, loopSt, destroyed,
                   stop_flag, runRet, hst, closeReq, sigPending, asyncPending,
                   frames, wire, grain, rd, parser, fed, delivered, pending,
                   cancelled, work, nextId, inited, n0, cbs, late>>
    /\ UNCHANGED <<argv, io_cfg, freeSeq, lateStop>>

\* _wait_for_pending_task: one test of the drain loop; a non-zero depth runs
\* one reactor iteration (UV_RUN_ONCE), zero leaves the loop.
_wait_for_pending_task ==
    /\ pc = "wait" /\ run = "none"
    /\ IF lsp_work_queue_size # 0
       THEN /\ run' = "drain" /\ lp' = "cond"
            /\ steps' = IF steps[Len(steps)] = "drain" THEN steps
                        ELSE Append(steps, "drain")
            /\ UNCHANGED pc
       ELSE /\ pc' = "stage_1"
            /\ steps' = Append(steps, "depth_zero")
            /\ UNCHANGED <<run, lp>>
    /\ UNCHANGED <<exitCode, shutdown, slot, freed, loopSt, destroyed,
                   stop_flag, runRet, hst, closeReq, sigPending, asyncPending,
                   frames, wire, grain, rd, parser, fed, delivered, pending,
                   cancelled, work, nextId, inited, n0, cbs, late>>
    /\ UNCHANGED <<argv, io_cfg, freeSeq, lateStop>>

\* The drain loop's uv_run(UV_RUN_ONCE) returns to the loop test.
DrainReturn ==
    /\ pc = "wait" /\ run = "drain" /\ RunEnds
    /\ runRet' = IF Alive THEN 1 ELSE 0
    /\ stop_flag' = 0
    /\ run' = "none" /\ lp' = "idle"
    /\ cbs' = {}
    /\ UNCHANGED <<pc, exitCode, shutdown, slot, freed, loopSt, destroyed, hst,
                   closeReq, sigPending, asyncPending, frames, wire, grain, rd,
                   parser, fed, delivered, pending, cancelled, work, nextId,
                   inited, steps, n0, late>>
    /\ UNCHANGED <<argv, io_cfg, freeSeq, lateStop>>

\* tag_lsp_io_exit: close is requested on the transport's stream.
tag_lsp_io_exit(h) ==
    IF hst["io"] = "open" THEN [h EXCEPT !["io"] = "closing"] ELSE h

\* _at_exit_stage_1 without uv_close on the exit notifier.
_at_exit_stage_1_nonotifyclose ==
    /\ pc = "stage_1"
    /\ hst' = [tag_lsp_io_exit(hst) EXCEPT !["sigint"] = "closing"]
    /\ closeReq' = [h \in Handles |->
                      IF h = "exit_notifier" \/ (h = "io" /\ hst["io"] # "open")
                      THEN closeReq[h]
                      ELSE closeReq[h] + 1]
    /\ inited' = {}
    /\ steps' = Append(steps, "close")
    /\ pc' = "cleanup"
    /\ UNCHANGED <<exitCode, shutdown, slot, freed, loopSt, destroyed,
                   stop_flag, run, lp, runRet, sigPending, asyncPending,
                   frames, wire, grain, rd, parser, fed, delivered, pending,
                   cancelled, work, nextId, n0, cbs, late>>
    /\ UNCHANGED <<argv, io_cfg, freeSeq, lateStop>>

\* _at_exit_stage_1 without uv_close on the signal watcher.
_at_exit_stage_1_nosigclose ==
    /\ pc = "stage_1"
    /\ hst' = [tag_lsp_io_exit(hst) EXCEPT !["exit_notifier"] = "closing"]
    /\ closeReq' = [h \in Handles |->
                      IF h = "sigint" \/ (h = "io" /\ hst["io"] # "open")
                      THEN closeReq[h]
                      ELSE closeReq[h] + 1]
    /\ inited' = {}
    /\ steps' = Append(steps, "close")
    /\ pc' = "cleanup"
    /\ UNCHANGED <<exitCode, shutdown, slot, freed, loopSt, destroyed,
                   stop_flag, run, lp, runRet, sigPending, asyncPending,
                   frames, wire, grain, rd, parser, fed, delivered, pending,
                   cancelled, work, nextId, n0, cbs, late>>
    /\ UNCHANGED <<argv, io_cfg, freeSeq, lateStop>>

\* _at_exit_stage_1 (after lsp_method_cleanup): the subsystems' exits, then
\* uv_close on the signal watcher and on the exit notifier.
_at_exit_stage_1 ==
    /\ pc = "stage_1"
    /\ hst' = [tag_lsp_io_exit(hst) EXCEPT !["sigint"] = "closing",
                                           !["exit_notifier"] = "closing"]
    /\ closeReq' = [h \in Handles |->
                      IF h = "io" /\ hst["io"] # "open" THEN closeReq[h]
                      ELSE closeReq[h] + 1]
    /\ inited' = {}
    /\ steps' = Append(steps, "close")
    /\ pc' = "cleanup"
    /\ UNCHANGED <<exitCode, shutdown, slot, freed, loopSt, destroyed,
                   stop_flag, run, lp, runRet, sigPending, asyncPending,
                   frames, wire, grain, rd, parser, fed, delivered, pending,
                   cancelled, work, nextId, n0, cbs, late>>
    /\ UNCHANGED <<argv, io_cfg, freeSeq, lateStop>>

\* _cleanup_loop with its NULL test inverted: it returns at once.
_cleanup_loop_run_inverted ==
    /\ pc = "cleanup"
    /\ IF slot["loop"]
       THEN pc' = "stage_2" /\ UNCHANGED <<run, lp>>
       ELSE pc' = "cleanup_run" /\ run' = "final" /\ lp' = "cond"
    /\ UNCHANGED <<exitCode, shutdown, slot, freed, loopSt, destroyed,
                   stop_flag, runRet, hst, closeReq, sigPending, asyncPending,
                   frames, wire, grain, rd, parser, fed, delivered, pending,
                   cancelled, work, nextId, inited, steps, n0, cbs, late>>
    /\ UNCHANGED <<argv, io_cfg, freeSeq, lateStop>>

\* _cleanup_loop up to its uv_run(UV_RUN_DEFAULT): nothing to do without a
\* loop, otherwise the final reactor run starts.
_cleanup_loop_run ==
    /\ pc = "cleanup"
    /\ IF ~slot["loop"]
       THEN pc' = "stage_2" /\ UNCHANGED <<run, lp>>
       ELSE pc' = "cleanup_run" /\ run' = "final" /\ lp' = "cond"
    /\ UNCHANGED <<exitCode, shutdown, slot, freed, loopSt, destroyed,
                   stop_flag, runRet, hst, closeReq, sigPending, asyncPending,
                   frames, wire, grain, rd, parser, fed, delivered, pending,
                   cancelled, work, nextId, inited, steps, n0, cbs, late>>
    /\ UNCHANGED <<argv, io_cfg, freeSeq, lateStop>>

\* uv_loop_close fails (UV_EBUSY) while a handle is not closed or a request
\* is active.
LoopBusy == (\E h \in Handles : hst[h] \in {"open", "closing"}) \/ work # {}

\* _cleanup_loop from the return of its uv_run: abort on a non-zero result,
\* uv_loop_close (abort when it fails), free the loop.
_cleanup_loop_close ==
    /\ pc = "cleanup_run" /\ run = "final" /\ RunEnds
    /\ runRet' = IF Alive THEN 1 ELSE 0
    /\ stop_flag' = 0
    /\ run' = "none" /\ lp' = "idle"
    /\ cbs' = {}
    /\ IF Alive
       THEN /\ pc' = "aborted"
            /\ UNCHANGED <<loopSt, destroyed, freed, slot, steps, freeSeq>>
       ELSE IF LoopBusy
       THEN /\ pc' = "aborted"
            /\ steps' = Append(steps, "run")
            /\ UNCHANGED <<loopSt, destroyed, freed, slot, freeSeq>>
       ELSE /\ loopSt' = "destroyed"
            /\ destroyed' = destroyed + 1
            /\ freed' = [freed EXCEPT !["loop"] = @ + 1]
            /\ freeSeq' = Append(freeSeq, "loop")
            /\ slot' = [slot EXCEPT !["loop"] = FALSE]
            /\ steps' = steps \o <<"run", "destroy">>
            /\ pc' = "stage_2"
    /\ UNCHANGED <<exitCode, shutdown, hst, closeReq, sigPending, asyncPending,
                   frames, wire, grain, rd, parser, fed, delivered, pending,
                   cancelled, work, nextId, inited, n0, late>>
    /\ UNCHANGED <<argv, io_cfg, lateStop>>

\* _cleanup_loop that closes and frees the loop without running it to
\* completion and without looking at uv_loop_close's result.
_cleanup_loop_naive ==
    /\ pc = "cleanup"
    /\ loopSt' = "destroyed"
    /\ destroyed' = destroyed + 1
    /\ freed' = [freed EXCEPT !["loop"] = @ + 1]
    /\ slot' = [slot EXCEPT !["loop"] = FALSE]
    /\ steps' = steps \o <<"run", "destroy">>
    /\ freeSeq' = Append(freeSeq, "loop")
    /\ pc' = "stage_2"
    /\ UNCHANGED <<exitCode, shutdown, stop_flag, run, lp, runRet, hst,
                   closeReq, sigPending, asyncPending, frames, wire, grain, rd,
                   parser, fed, delivered, pending, cancelled, work, nextId,
                   inited, n0, cbs, late>>
    /\ UNCHANGED <<argv, io_cfg, lateStop>>

\* _cleanup_loop: the final reactor run, then the reactor's destruction.
_cleanup_loop == _cleanup_loop_run \/ _cleanup_loop_close

\* The order in which _at_exit_stage_2 looks at the owned pointers.
Stage2Order == <<"parser", "logdir", "logfile", "sigint", "exit_notifier">>

\* _at_exit_stage_2 that frees the configuration strings before it destroys
\* the parser.
_at_exit_stage_2_cfgfirst ==
    /\ pc = "stage_2"
    /\ freed' = [o \in Objects |->
                   IF o # "loop" /\ slot[o] THEN freed[o] + 1 ELSE freed[o]]
    /\ freeSeq' = freeSeq \o SelectSeq(<<"logdir", "logfile", "parser", "sigint",
                                        "exit_notifier">>, LAMBDA o : slot[o])
    /\ slot' = [o \in Objects |-> IF o = "loop" THEN slot[o] ELSE FALSE]
    /\ parser' = ParserNull
    /\ steps' = Append(steps, "free")
    /\ pc' = "lib_shutdown"
    /\ UNCHANGED <<exitCode, shutdown, loopSt, destroyed, stop_flag, run, lp,
                   runRet, hst, closeReq, sigPending, asyncPending, frames,
                   wire, grain, rd, fed, delivered, pending, cancelled, work,
                   nextId, inited, n0, cbs, late>>
    /\ UNCHANGED <<argv, io_cfg, lateStop>>

\* _at_exit_stage_2: every owned pointer that is set is freed and cleared,
\* the parser first, then the configuration strings, then the handles.
_at_exit_stage_2 ==
    /\ pc = "stage_2"
    /\ freed' = [o \in Objects |->
                   IF o # "loop" /\ slot[o] THEN freed[o] + 1 ELSE freed[o]]
    /\ freeSeq' = freeSeq \o SelectSeq(Stage2Order, LAMBDA o : slot[o])
    /\ slot' = [o \in Objects |-> IF o = "loop" THEN slot[o] ELSE FALSE]
    /\ parser' = ParserNull
    /\ steps' = Append(steps, "free")
    /\ pc' = "lib_shutdown"
    /\ UNCHANGED <<exitCode, shutdown, loopSt, destroyed, stop_flag, run, lp,
                   runRet, hst, closeReq, sigPending, asyncPending, frames,
                   wire, grain, rd, fed, delivered, pending, cancelled, work,
                   nextId, inited, n0, cbs, late>>
    /\ UNCHANGED <<argv, io_cfg, lateStop>>

\* _at_exit's last call, uv_library_shutdown; the process then ends.
ProcessExit ==
    /\ pc = "lib_shutdown"
    /\ steps' = Append(steps, "exit")
    /\ pc' = "terminated"
    /\ UNCHANGED <<exitCode, shutdown, slot, freed, loopSt, destroyed,
                   stop_flag, run, lp, runRet, hst, closeReq, sigPending,
                   asyncPending, frames, wire, grain, rd, parser, fed,
                   delivered, pending, cancelled, work, nextId, inited,
                   n0, cbs, late>>
    /\ UNCHANGED <<argv, io_cfg, freeSeq, lateStop>>

(* --------------------------- specifications ---------------------------- *)

Next ==
    \/ main
    \/ UvIterStart
    \/ UvIterEnd
    \/ Sigint
    \/ _on_signal
    \/ _on_exit_notify
    \/ IoData
    \/ IoError
    \/ WorkDone
    \/ MainReturn
    \/ _at_exit
    \/ _wait_for_pending_task
    \/ DrainReturn
    \/ _at_exit_stage_1
    \/ _cleanup_loop
    \/ _at_exit_stage_2
    \/ ProcessExit

Spec == Init /\ [][Next]_vars

\* The steps of the one thread that runs main, the exit hook and every uv_run:
\* none of them waits for anything but the reactor's own events.
Thread ==
    \/ UvIterStart
    \/ UvIterEnd
    \/ MainReturn
    \/ _at_exit
    \/ _wait_for_pending_task
    \/ DrainReturn
    \/ _at_exit_stage_1
    \/ _cleanup_loop
    \/ _at_exit_stage_2
    \/ ProcessExit

\* A thread that keeps running, and work units that complete when reactor
\* iterations keep coming.
\* The start of LiveSpec: as Init, the peer sending well-formed frames only.
LiveInit ==
    /\ InitCommon
    /\ argv \in SpecArgvs
    /\ grain = Grain
    /\ frames \in SeqsUpTo(SpecBodies, MaxFrames)
    /\ wire = EncodeFrames(frames)

LiveSpec ==
    LiveInit /\ [][Next]_vars /\ WF_vars(Thread) /\ SF_vars(WorkDone)

\* The frame sequences of DecSpec: up to MaxFrames short frames, and the
\* long frame followed by fewer.
DecFrames ==
    SeqsUpTo(DecBodies, MaxFrames)
        \cup {<<LongBody>> \o q : q \in SeqsUpTo(DecBodies, MaxFrames - 1)}

\* The decoder fed by the main reactor run under every chunking: the state
\* main reaches for a command line without options, at the start of its
\* uv_run, for every sequence of valid frames and every split of the stream.
DecInit ==
    /\ pc = "main_run"
    /\ exitCode = -1
    /\ shutdown = 0
    /\ slot = [o \in Objects |-> o \in {"loop", "sigint", "exit_notifier", "parser"}]
    /\ freed = [o \in Objects |-> 0]
    /\ loopSt = "live"
    /\ destroyed = 0
    /\ stop_flag = 0
    /\ run = "main"
    /\ lp = "cond"
    /\ runRet = 0
    /\ hst = [h \in Handles |-> "open"]
    /\ closeReq = [h \in Handles |-> 0]
    /\ sigPending = FALSE
    /\ asyncPending = FALSE
    /\ rd = 0
    /\ parser = ParserInit
    /\ fed = <<>>
    /\ delivered = <<>>
    /\ pending = {}
    /\ cancelled = {}
    /\ work = {}
    /\ nextId = 1
    /\ inited = Subsystems
    /\ steps = <<>>
    /\ n0 = -1
    /\ cbs = {}
    /\ late = FALSE
    /\ argv = <<ProgName>>
    /\ io_cfg = [type |-> "TAG_LSP_IO_STDIO", file |-> Unset, port |-> Unset]
    /\ freeSeq = <<>>
    /\ lateStop = FALSE
    /\ grain = 1
    /\ frames \in DecFrames
    /\ wire = EncodeFrames(frames)

DecNext ==
    \/ UvIterStart
    \/ UvIterEnd
    \/ IoData

DecSpec == DecInit /\ [][DecNext]_vars

\* The arguments of CliSpec: every option of the program, ports that are
\* numbers, are no number, start with a number or are empty, and an argument
\* that only starts like an option.
CliArgs ==
    { OptHelpShort, OptHelp, OptStdio, OptStdio \o <<"x">>,
      OptPipe \o <<"p">>, OptPipe \o <<"q">>,
      OptPort \o <<"8", "0">>, OptPort \o <<"-", "5">>,
      OptPort \o <<"x">>, OptPort \o <<"8", "x">>, OptPort,
      OptLogdir \o <<"d">>, OptLogfile \o <<"f">> }

\* Every command line of up to MaxArgs arguments, nothing on the wire.
CliInit ==
    /\ InitCommon
    /\ argv \in {<<ProgName>> \o q : q \in SeqsUpTo(CliArgs, MaxArgs)}
    /\ grain = Grain
    /\ frames = <<>>
    /\ wire = <<>>

\* Start-up alone: the command line is parsed and the transport opened, or
\* exit() is called.
CliNext == main

CliSpec == CliInit /\ [][CliNext]_vars

(* ------------------------------- claims -------------------------------- *)

\* C1: no handle close is requested, and _at_exit_stage_1 is not entered,
\* while work units are outstanding: whenever the orchestrator is at
\* _at_exit_stage_1 or close has been requested on any handle, the work queue
\* depth is zero.
C1_NoCloseWhileWorkOutstanding ==
    (pc = "stage_1" \/ \E h \in Handles : closeReq[h] > 0)
        => lsp_work_queue_size = 0

\* C1 witness: the drain loop has been left with two work units outstanding
\* at shutdown start.
C1_Witness == pc = "stage_1" /\ n0 >= 2

OrderNoDrain ==
    <<"flag", "cancel", "depth_zero", "close", "run", "destroy", "free", "exit">>

OrderDrain ==
    <<"flag", "cancel", "drain", "depth_zero", "close", "run", "destroy",
      "free", "exit">>

IsPrefix(a, b) == Len(a) <= Len(b) /\ a = SubSeq(b, 1, Len(a))

\* C2: the shutdown steps happen in one strict order, each once and none
\* skipped: flag, cancel_all, (drain iterations when work is outstanding),
\* depth zero, close requested, reactor run to completion, reactor destroyed,
\* heap state freed, process end; the steps so far are always a prefix of
\* that order and a terminated process has taken all of them.
C2_StrictOrder ==
    LET order == IF n0 > 0 THEN OrderDrain ELSE OrderNoDrain
    IN /\ IsPrefix(steps, order)
       /\ pc = "terminated" => steps = order

\* C2 witness: a process that terminated after draining outstanding work.
C2_Witness == pc = "terminated" /\ n0 > 0

Count(q, x) == Cardinality({i \in 1..Len(q) : q[i] = x})

\* C3: whatever shutdown triggers arrive and whenever, close is requested at
\* most once on each handle, the reactor is destroyed at most once, each heap
\* object is freed at most once and every teardown step runs at most once,
\* exactly once in a terminated process.
C3_TeardownOnce ==
    /\ \A h \in Handles : closeReq[h] <= 1
    /\ destroyed <= 1
    /\ \A o \in Objects : freed[o] <= 1
    /\ \A i \in 1..Len(OrderDrain) : Count(steps, OrderDrain[i]) <= 1
    /\ pc = "terminated" =>
          /\ destroyed = 1 /\ freed["loop"] = 1
          /\ freed["sigint"] = 1 /\ freed["exit_notifier"] = 1
          /\ closeReq["sigint"] = 1 /\ closeReq["exit_notifier"] = 1
          /\ Count(steps, "flag") = 1 /\ Count(steps, "exit") = 1

\* C3 witness: a process that terminated although a further shutdown trigger
\* arrived after the main run had ended.
C3_Witness == pc = "terminated" /\ late

\* C4: once the shutdown flag is set, and in every iteration of the drain loop
\* and of the final run, no step records a request as pending, forwards one
\* to the work subsystem or aborts the process.
C4_NoDispatchAfterFlag ==
    [][(shutdown = 1 \/ run \in {"drain", "final"}) =>
          /\ work' \subseteq work
          /\ pending' \subseteq pending
          /\ nextId' = nextId
          /\ pc' # "aborted"]_vars

\* C4 witness: in a drain iteration a message was decoded and handed to
\* _handle_request without being dispatched.
C4_Witness ==
    shutdown = 1 /\ run = "drain" /\ Len(delivered) > nextId - 1

CloseRequestedOnce ==
    \A h \in Handles :
        /\ hst[h] # "open"
        /\ closeReq[h] = IF hst[h] = "none" THEN 0 ELSE 1

\* C6 as stated: once handles are being closed, close has been requested
\* exactly once on every handle and the ownership slots g_tags.sigint and
\* g_tags.exit_notifier are already cleared, before any further reactor
\* iteration runs.
C6_SlotsClearedOnClose ==
    pc \in {"cleanup", "cleanup_run"} =>
        /\ CloseRequestedOnce
        /\ ~slot["sigint"] /\ ~slot["exit_notifier"]

\* C6 as amended: once handles are being closed, close has been requested
\* exactly once on every handle that was opened; the ownership slots stay set
\* through the final reactor run and are cleared by _at_exit_stage_2, when
\* the storage is freed after the reactor was destroyed.
C6_SlotsClearedWhenFreed ==
    /\ pc \in {"cleanup", "cleanup_run", "stage_2"} =>
          /\ CloseRequestedOnce
          /\ slot["sigint"] /\ slot["exit_notifier"]
          /\ freed["sigint"] = 0 /\ freed["exit_notifier"] = 0
    /\ pc \in {"lib_shutdown", "terminated"} =>
          /\ CloseRequestedOnce
          /\ ~slot["sigint"] /\ ~slot["exit_notifier"]
          /\ freed["sigint"] = 1 /\ freed["exit_notifier"] = 1
          /\ loopSt = "destroyed"

\* C6 witness: an iteration of the final reactor run, close requested on all
\* three handles, both slots still set.
C6_Witness ==
    /\ pc = "cleanup_run" /\ lp = "poll"
    /\ \A h \in Handles : hst[h] = "closing" /\ closeReq[h] = 1
    /\ slot["sigint"] /\ slot["exit_notifier"]

\* C7 as stated: once _on_exit_notify has run, the shutdown flag is true
\* before any further reactor callback (a read fed to the decoder, a work
\* completion) executes.
C7_FlagSetByNotify ==
    [][("notify" \in cbs /\ (fed' # fed \/ work' # work)) => shutdown = 1]_vars

\* C7 as amended: _on_exit_notify only asks the reactor to stop; the stop
\* request stands until the main run returns, no further iteration of the
\* main run starts after it, and every later reactor iteration (drain loop,
\* final run) runs with the shutdown flag set by _at_exit.
C7_NotifyStopsMainRun ==
    /\ [](("notify" \in cbs /\ run = "main") => stop_flag = 1)
    /\ [][("notify" \in cbs /\ run = "main" /\ lp # "poll") => lp' # "poll"]_vars
    /\ [][(run = "main" /\ run' # "main") => pc' = "at_exit"]_vars
    /\ [](run \in {"drain", "final"} => shutdown = 1)

\* C7 witness: the main run at its loop test after _on_exit_notify ran, the
\* shutdown flag still false.
C7_Witness ==
    "notify" \in cbs /\ run = "main" /\ lp = "cond" /\ shutdown = 0

\* C8: a read callback with size < 0 feeds nothing and stops the reactor, so
\* that no further iteration of the main run starts and the main run ends in
\* the exit hook; the bytes fed to the decoder are exactly the bytes the
\* transport delivered, in arrival order.
C8_ErrorStopsDataForwarded ==
    /\ [](fed = SubSeq(wire, 1, rd))
    /\ []("ioerr" \in cbs => stop_flag = 1)
    /\ [][("ioerr" \in cbs /\ run = "main" /\ lp # "poll") => lp' # "poll"]_vars
    /\ [][(run = "main" /\ run' # "main") => (pc' = "at_exit" /\ run' = "none")]_vars

\* C8 witness: the main run at its loop test after several reads of data and
\* then a read error.
C8_Witness ==
    "ioerr" \in cbs /\ run = "main" /\ lp = "cond" /\ rd > Grain

\* C9 as stated: after the decoder failed on a malformed header the reactor
\* is stopped: the main run does not reach its next loop test without a stop
\* request.
C9_DecodeErrorStops ==
    (parser.st = "error" /\ run = "main" /\ lp = "cond") => stop_flag = 1

RECURSIVE CompleteFrames(_, _)
\* The bodies of the leading frames of fs that lie wholly within the first n
\* bytes of their encoding.
CompleteFrames(fs, n) ==
    IF fs = <<>> THEN <<>>
    ELSE LET l == Len(EncodeFrame(Head(fs)))
         IN IF l <= n THEN <<Head(fs)>> \o CompleteFrames(Tail(fs), n - l)
            ELSE <<>>

\* C10: for every sequence of valid frames and every split of its bytes into
\* chunks, the handler has been invoked exactly once for each frame whose last
\* byte has been delivered, in arrival order, with the original body; once
\* the whole stream is delivered the handler has seen exactly the frames.
C10_OneCallPerFrame ==
    /\ delivered = CompleteFrames(frames, rd)
    /\ rd = Len(wire) => delivered = frames
    /\ parser.st # "error"

\* C10 witness: two frames with different bodies, wholly delivered and
\* decoded.
C10_Witness ==
    /\ rd = Len(wire) /\ Len(frames) = 2 /\ frames[1] = LongBody
    /\ delivered = frames

\* An integer as text: an optional sign, then digits and nothing else.
IsIntegerText(s) ==
    LET u == IF s # <<>> /\ Head(s) \in {"+", "-"} THEN Tail(s) ELSE s
    IN u # <<>> /\ \A i \in 1..Len(u) : IsDigit(u[i])

\* Some argument is --port= with a value that is not an integer.
BadPortGiven ==
    \E i \in 1..Len(argv) :
        HasPrefix(argv[i], OptPort) /\ ~IsIntegerText(After(argv[i], OptPort))

\* C11 as stated: once the command line has been parsed, if any --port value
\* is not an integer, wherever it stands, exit() was called with a non-zero
\* status and tag_lsp_io_init was never called.
C11_BadPortExits ==
    (pc # "start" /\ BadPortGiven) =>
        (exitCode \notin {-1, 0} /\ ~TransportOpened /\ hst["io"] = "none")

\* The command line made the parser call exit(): -h / --help, or a --port
\* value sscanf cannot convert.
EarlyExit == pc # "start" /\ _parser_command_line_options(argv).exit

\* C12 as stated: on the early command-line exits the reactor is never
\* initialised, no handle is ever registered on it and no uv_run is ever in
\* progress, exit-time cleanup included.
C12_EarlyExitWithoutReactor ==
    EarlyExit =>
        /\ loopSt = "uninit"
        /\ \A h \in Handles : hst[h] = "none"
        /\ run = "none"

\* x comes before y wherever both occur in q.
Before(q, x, y) ==
    \A i, j \in 1..Len(q) : (q[i] = x /\ q[j] = y) => i < j

\* C13: the parser is destroyed before either configuration string is freed;
\* the storage of the reactor, of the signal watcher and of the exit notifier
\* is freed only once the reactor is destroyed with every handle closed, the
\* reactor's own storage first; and from the first free on no uv_run is in
\* progress, so no iteration and no callback runs.
C13_ReleaseOrder ==
    /\ Before(freeSeq, "parser", "logdir")
    /\ Before(freeSeq, "parser", "logfile")
    /\ Before(freeSeq, "loop", "sigint")
    /\ Before(freeSeq, "loop", "exit_notifier")
    /\ \A o \in {"loop", "sigint", "exit_notifier"} :
          freed[o] > 0 =>
             /\ loopSt = "destroyed"
             /\ \A h \in Handles : hst[h] \in {"none", "closed"}
    /\ freeSeq # <<>> => (run = "none" /\ lp = "idle")
    /\ \A o \in Objects : freed[o] = Count(freeSeq, o)

\* C13 witness: a terminated process that had a parser, both configuration
\* strings, both handles and the reactor to release.
C13_Witness ==
    /\ pc = "terminated"
    /\ freeSeq = <<"loop", "parser", "logdir", "logfile", "sigint",
                   "exit_notifier">>

\* C14: the orchestrator, once in the drain loop, eventually leaves it, and
\* once the shutdown flag is set the process eventually terminates, and the drain loop is
\* left only for _at_exit_stage_1 and only with the work queue empty.
C14_DrainEndsProcessTerminates ==
    /\ (pc = "wait") ~> (pc = "stage_1")
    /\ (shutdown = 1) ~> (pc = "terminated")
    /\ [][(pc = "wait" /\ pc' # "wait") =>
             (lsp_work_queue_size = 0 /\ pc' = "stage_1")]_vars

\* C14 witness: a terminated process whose drain loop ran with two work units
\* outstanding at its start.
C14_Witness ==
    pc = "terminated" /\ n0 >= 2 /\ Count(steps, "drain") = 1 /\ work = {}

\* A transport selector: --stdio, --pipe=<path> or --port=<value>.
IsSelector(a) == a = OptStdio \/ HasPrefix(a, OptPipe) \/ HasPrefix(a, OptPort)

\* The number an integer text stands for.
IntegerValue(s) ==
    IF Head(s) = "-" THEN 0 - ParseDigits(Tail(s), 0)
    ELSE IF Head(s) = "+" THEN ParseDigits(Tail(s), 0)
    ELSE ParseDigits(s, 0)

\* The position of the last transport selector of the command line, 0 when
\* there is none.
LastSelector ==
    LET S == {i \in 1..Len(argv) : IsSelector(argv[i])}
    IN IF S = {} THEN 0 ELSE CHOOSE i \in S : \A j \in S : j <= i

\* A command line of transport selectors with integer ports, log options and
\* other arguments: no -h / --help, no --port value that is not an integer.
PlainSelectors ==
    /\ \A i \in 1..Len(argv) : argv[i] \notin {OptHelpShort, OptHelp}
    /\ ~BadPortGiven

\* C15: the transport handed to tag_lsp_io_init is that of the last selector
\* on the command line, with its path or port, and stdio when there is no
\* selector.
C15_LastSelectorWins ==
    (pc # "start" /\ PlainSelectors) =>
        /\ TransportOpened
        /\ LET a == IF LastSelector = 0 THEN OptStdio ELSE argv[LastSelector]
           IN IF a = OptStdio THEN io_cfg.type = "TAG_LSP_IO_STDIO"
              ELSE IF HasPrefix(a, OptPipe)
              THEN /\ io_cfg.type = "TAG_LSP_IO_PIPE"
                   /\ io_cfg.file = After(a, OptPipe)
              ELSE /\ io_cfg.type = "TAG_LSP_IO_PORT"
                   /\ io_cfg.port = IntegerValue(After(a, OptPort))

\* C15 witness: a port, then --stdio, then a pipe: the pipe is selected.
C15_Witness ==
    /\ pc # "start" /\ Len(argv) = 4
    /\ HasPrefix(argv[2], OptPort) /\ argv[3] = OptStdio
    /\ argv[4] = OptPipe \o <<"q">>
    /\ io_cfg.type = "TAG_LSP_IO_PIPE" /\ io_cfg.file = <<"q">>

IsHelp(a) == a \in {OptHelpShort, OptHelp}

\* A --port argument whose value does not begin with an integer.
Rejected(a) ==
    /\ HasPrefix(a, OptPort)
    /\ LET v == After(a, OptPort)
       IN ~\E k \in 1..Len(v) : IsIntegerText(SubSeq(v, 1, k))

\* How the process comes to its end, read off the command line: the first
\* argument that is a help option or a rejected port decides, and without
\* one the process runs until its main reactor run ends.
ExitKind ==
    LET S == {i \in 1..Len(argv) : IsHelp(argv[i]) \/ Rejected(argv[i])}
        first == CHOOSE i \in S : \A j \in S : i <= j
    IN IF S = {} THEN "normal"
       ELSE IF IsHelp(argv[first]) THEN "help" ELSE "usage"

C17_LateStopNoAbort ==
    /\ [](pc # "aborted")
    /\ []((pc \in {"stage_1", "cleanup"} \/ run = "final") => stop_flag = 0)
    /\ [][(run = "final" /\ run' # "final") => (~Alive /\ pc' = "stage_2")]_vars

\* C17 witness: a process that terminated after uv_stop was called in an
\* iteration of the drain loop.
C17_Witness ==
    pc = "terminated" /\ lateStop /\ destroyed = 1 /\ n0 > 0

\* C18 as stated: every teardown call of the exit hook finds its subsystem
\* initialised: lsp_msg_cancel_all_pending_request in _at_exit needs
\* lsp_msg_init, lsp_work_queue_size in _wait_for_pending_task needs
\* lsp_work_init, and the four exits in _at_exit_stage_1 need the four inits.
C18_TeardownAfterInit ==
    [][/\ (pc = "at_exit" /\ pc' # pc) => "msg" \in inited
       /\ (pc = "wait" /\ run = "none" /\ (pc' # pc \/ run' # run)) =>
             "work" \in inited
       /\ (pc = "stage_1" /\ pc' # pc) => Subsystems \subseteq inited]_vars

\* C19: every step in which _on_io_in feeds bytes to the decoder finds the
\* parser created and not destroyed, and the step of _at_exit_stage_1 that
\* requests close on the signal watcher and the exit notifier finds both
\* slots set, both handles initialised on a live reactor, open, and neither
\* closed nor freed before.
C19_ParserAndHandlesExist ==
    [][/\ (fed' # fed) =>
             /\ slot["parser"] /\ freed["parser"] = 0
             /\ parser # ParserNull
       /\ (pc = "stage_1" /\ pc' # pc) =>
             \A h \in {"sigint", "exit_notifier"} :
                /\ slot[h] /\ freed[h] = 0
                /\ hst[h] = "open" /\ closeReq[h] = 0
                /\ loopSt = "live"]_vars

\* C19 witness: close requested on both handles after an early exit from
\* the command-line parser.
C19_Witness ==
    /\ EarlyExit /\ pc = "cleanup"
    /\ closeReq["sigint"] = 1 /\ closeReq["exit_notifier"] = 1

====
